---- MODULE Spec2Model ----
(***************************************************************************)
(* sandbox/trim-low-abund.py: streaming two-pass trimming of reads at      *)
(* low-abundance k-mers.  main() is modelled statement group by statement  *)
(* group; the counting table (khmer.new_counting_hash and its methods),    *)
(* the record writers and the paired reader live outside the script and    *)
(* are modelled from their documented contract.                            *)
(*                                                                         *)
(* A sequence is a tuple of one-letter strings.  A record is               *)
(* [name, sequence, accuracy, has_accuracy]; has_accuracy stands for       *)
(* hasattr(read, 'accuracy').  Input files and output files are separate   *)
(* name spaces.                                                            *)
(***************************************************************************)
EXTENDS Integers, Sequences, FiniteSets, TLC

\* ------------------------------------------------------------------ bounds

\* Largest number of reader yields (singles or pairs) in all input files
\* of one run.
MaxYields == 2

\* Largest number of sequences consumed into a table that is near its
\* counter maximum.
MaxConsumes == 3

\* ---------------------------------------------------- run configuration

NORMALIZE_LIMIT == 2
CUTOFF == 2
N_HT == 2
HT_SIZE == 3
MAX_FALSE_POSITIVE_RATE_NUM == 8
MAX_FALSE_POSITIVE_RATE_DEN == 10

\* The k-mer sizes a run is started with (-k): one valid, one invalid.
Ksizes == {0, 2}

\* Input filenames as <<directory, basename>>.
FileAX == <<"a", "x">>
FileBX == <<"b", "x">>
FileY == <<"", "y">>

\* The argument lists a run is started with.
FileLists ==
    { <<FileAX>>, <<FileAX, FileY>>, <<FileY, FileAX>>,
      <<FileAX, FileBX>>, <<FileY, FileY>> }

basename(filename) == filename[2]

\* --------------------------------------------------------- counting table

MaxCount == 255

\* Sizes of the N_HT counter arrays: the primes above HT_SIZE.
TableSizes == <<3, 5>>

Min2(a, b) == IF a <= b THEN a ELSE b

twobit_repr(ch) ==
    CASE ch = "A" -> 0
      [] ch = "C" -> 1
      [] ch = "G" -> 2
      [] ch = "T" -> 3

complement(ch) ==
    CASE ch = "A" -> "T"
      [] ch = "C" -> "G"
      [] ch = "G" -> "C"
      [] ch = "T" -> "A"

reverse_complement(s) ==
    [i \in 1..Len(s) |-> complement(s[Len(s) + 1 - i])]

RECURSIVE encode_forward(_)
encode_forward(s) ==
    IF Len(s) = 0 THEN 0
    ELSE 4 * encode_forward(SubSeq(s, 1, Len(s) - 1)) + twobit_repr(s[Len(s)])

\* Canonical key of a k-mer: the smaller of the two strand encodings.
encode(kmer) == Min2(encode_forward(kmer), encode_forward(reverse_complement(kmer)))

\* 0-based start offsets of the k-mers of seq.
kmer_positions(seq, K) == 0..(Len(seq) - K)

kmer_at(seq, p, K) == SubSeq(seq, p + 1, p + K)

new_counting_hash(K, size, n) ==
    [i \in 1..n |-> [b \in 1..TableSizes[i] |-> 0]]

bin_of(key, i) == (key % TableSizes[i]) + 1

\* Count-min estimate: the minimum over the arrays.
RECURSIVE min_over_tables(_, _, _)
min_over_tables(ht, key, i) ==
    IF i = Len(ht) THEN ht[i][bin_of(key, i)]
    ELSE Min2(ht[i][bin_of(key, i)], min_over_tables(ht, key, i + 1))

get_count(ht, key) == min_over_tables(ht, key, 1)

\* An increment that wraps round at the maximum, as a 1-byte add does.
saturating_increment_Wrapping(c) == (c + 1) % (MaxCount + 1)

saturating_increment(c) == IF c >= MaxCount THEN MaxCount ELSE c + 1

count(ht, key) ==
    [i \in 1..Len(ht) |->
        [ht[i] EXCEPT ![bin_of(key, i)] = saturating_increment(@)]]

RECURSIVE consume_from(_, _, _, _)
consume_from(ht, K, seq, p) ==
    IF p > Len(seq) - K THEN ht
    ELSE consume_from(count(ht, encode(kmer_at(seq, p, K))), K, seq, p + 1)

consume(ht, K, seq) == consume_from(ht, K, seq, 0)

kmer_counts(ht, K, seq) ==
    [p \in kmer_positions(seq, K) |-> get_count(ht, encode(kmer_at(seq, p, K)))]

\* A sequence with no k-mer makes the median query fail.
TooShort(K, seq) == Len(seq) < K

\* Element at index n/2 of the sorted counts.
get_median_count(ht, K, seq) ==
    LET cs == kmer_counts(ht, K, seq)
        ps == kmer_positions(seq, K)
        mid == Cardinality(ps) \div 2
    IN  CHOOSE v \in {cs[p] : p \in ps} :
            /\ Cardinality({p \in ps : cs[p] < v}) <= mid
            /\ Cardinality({p \in ps : cs[p] <= v}) > mid

trim_on_abundance(ht, K, seq, cutoff) ==
    LET cs == kmer_counts(ht, K, seq)
        low == {p \in kmer_positions(seq, K) : cs[p] < cutoff}
    IN  IF Len(seq) < K \/ low = {} THEN Len(seq)
        ELSE (CHOOSE p \in low : \A q \in low : p <= q) + K - 1

n_occupied(ht) == Cardinality({b \in 1..Len(ht[1]) : ht[1][b] > 0})

RECURSIVE power(_, _)
power(x, n) == IF n = 0 THEN 1 ELSE x * power(x, n - 1)

\* The estimated false-positive rate (occupancy / size) ^ n, as the
\* fraction <<numerator, denominator>>.
calc_expected_collisions(ht) ==
    <<power(n_occupied(ht), Len(ht)), power(TableSizes[1], Len(ht))>>

\* ------------------------------------------------------------ records

Record(name, sequence, has_accuracy) ==
    [name |-> name, sequence |-> sequence,
     accuracy |-> IF has_accuracy THEN [i \in 1..Len(sequence) |-> i] ELSE <<>>,
     has_accuracy |-> has_accuracy]

NoRecord == Record(<<>>, <<>>, FALSE)

\* read.sequence.replace('N', 'A')
replace_N_A(sequence) ==
    [i \in 1..Len(sequence) |-> IF sequence[i] = "N" THEN "A" ELSE sequence[i]]

\* A slice that keeps the character at offset k as well.
slice_to_Inclusive(s, k) == SubSeq(s, 1, Min2(k + 1, Len(s)))

\* s[:k] of Python.
slice_to(s, k) ==
    IF k >= 0 THEN SubSeq(s, 1, Min2(k, Len(s)))
    ELSE SubSeq(s, 1, Len(s) + k)

\* Lines 43-50 without the slice of line 48: the quality is kept whole.
trim_record_WholeQuality(read, trim_at) ==
    [name |-> read.name,
     sequence |-> slice_to(read.sequence, trim_at),
     accuracy |-> IF read.has_accuracy THEN read.accuracy ELSE <<>>,
     has_accuracy |-> read.has_accuracy]

trim_record(read, trim_at) ==
    [name |-> read.name,
     sequence |-> slice_to(read.sequence, trim_at),
     accuracy |-> IF read.has_accuracy THEN slice_to(read.accuracy, trim_at) ELSE <<>>,
     has_accuracy |-> read.has_accuracy]

\* One serialized record of an output file.
write_record(record) ==
    IF record.has_accuracy
    THEN <<[format |-> "fastq", name |-> record.name,
            sequence |-> record.sequence, accuracy |-> record.accuracy]>>
    ELSE <<[format |-> "fasta", name |-> record.name,
            sequence |-> record.sequence, accuracy |-> <<>>]>>

\* Both mates are written in the format the first mate has.
write_record_pair(read1, read2) ==
    IF read1.has_accuracy
    THEN <<[format |-> "fastq", name |-> read1.name,
            sequence |-> read1.sequence, accuracy |-> read1.accuracy],
           [format |-> "fastq", name |-> read2.name,
            sequence |-> read2.sequence, accuracy |-> read2.accuracy]>>
    ELSE <<[format |-> "fasta", name |-> read1.name,
            sequence |-> read1.sequence, accuracy |-> <<>>],
           [format |-> "fasta", name |-> read2.name,
            sequence |-> read2.sequence, accuracy |-> <<>>]>>

\* The record screed.open yields for one serialized record.
screed_record(entry) ==
    [name |-> entry.name, sequence |-> entry.sequence,
     accuracy |-> entry.accuracy, has_accuracy |-> entry.format = "fastq"]

\* ------------------------------------------------------------- inputs

SeqAAA == <<"A", "A", "A">>
SeqCANA == <<"C", "A", "N", "A">>
SeqANAC == <<"A", "N", "A", "C">>
SeqAACC == <<"A", "A", "C", "C">>
SeqA == <<"A">>

\* What one yield of the paired reader holds: one read, or two mates.
\* Each read is <<sequence, has_accuracy>>.
YieldKinds ==
    { <<<<SeqAAA, FALSE>>>>, <<<<SeqCANA, TRUE>>>>, <<<<SeqANAC, TRUE>>>>,
      <<<<SeqAACC, TRUE>>>>, <<<<SeqA, TRUE>>>>,
      <<<<SeqAAA, TRUE>>, <<SeqCANA, TRUE>>>>,
      <<<<SeqAAA, TRUE>>, <<SeqAACC, TRUE>>>> }

KindSeqs == UNION {[1..len -> YieldKinds] : len \in 0..MaxYields}

\* Records read before yield number j (1-based) of kinds.
RECURSIVE records_before(_, _)
records_before(kinds, j) ==
    IF j <= 1 THEN 0
    ELSE records_before(kinds, j - 1) + Len(kinds[j - 1])

\* What broken_paired_reader yields for a file of these kinds:
\* [n, is_pair, read1, read2], read names unique in the run.
broken_paired_reader(filename, kinds) ==
    [j \in 1..Len(kinds) |->
        LET n == records_before(kinds, j)
            k == kinds[j]
        IN  [n |-> n,
             is_pair |-> Len(k) = 2,
             read1 |-> Record(<<filename, n>>, k[1][1], k[1][2]),
             read2 |-> IF Len(k) = 2
                       THEN Record(<<filename, n + 1>>, k[2][1], k[2][2])
                       ELSE NoRecord]]

Basenames == {basename(f) : f \in {FileAX, FileBX, FileY}}

NoFile == [exists |-> FALSE, records |-> <<>>]
EmptyFile == [exists |-> TRUE, records |-> <<>>]

Unbound == -1

VARIABLES
    input_filenames,    \* args.input_filenames
    ksize,              \* args.ksize
    variable_coverage,  \* args.variable_coverage
    disk,               \* input filename -> the yields of its reader
    pc,                 \* position of main()
    exit_status,        \* "running"; "ok"; "ConfigError" and "TableUndersized",
                        \* the two sys.exit(1); or the exception that ended main()
    ht,                 \* the counting table; <<>> before it is made
    fs,                 \* tempdir, pass-2 files and output files
    pass2list,
    file_i,             \* pass 1: index of the file being read, or of the next
    pass2_i,            \* pass 2: index into pass2list, likewise
    pos,                \* yields (pass 1) or records (pass 2) already read
    n,                  \* the local n of main(); Unbound before the first yield
    stats,              \* the counters of main()
    log                 \* history: one entry for each decision on a record

vars ==
    <<input_filenames, ksize, variable_coverage, disk, pc, exit_status, ht, fs,
      pass2list, file_i, pass2_i, pos, n, stats, log>>

config == <<input_filenames, ksize, variable_coverage, disk>>

Init ==
    /\ input_filenames \in FileLists
    /\ ksize \in Ksizes
    /\ variable_coverage \in BOOLEAN
    /\ \E kinds \in KindSeqs, cut \in 0..MaxYields :
          /\ cut <= Len(kinds)
          /\ Cardinality({input_filenames[i] : i \in 1..Len(input_filenames)}) = 1
                => cut = Len(kinds)
          /\ disk = [f \in {input_filenames[i] : i \in 1..Len(input_filenames)} |->
                        IF f = input_filenames[1]
                        THEN broken_paired_reader(f, SubSeq(kinds, 1, cut))
                        ELSE broken_paired_reader(f, SubSeq(kinds, cut + 1, Len(kinds)))]
    /\ pc = "check_args"
    /\ exit_status = "running"
    /\ ht = <<>>
    /\ fs = [tempdir |-> FALSE,
             pass2 |-> [b \in Basenames |-> NoFile],
             trim |-> [b \in Basenames |-> NoFile]]
    /\ pass2list = <<>>
    /\ file_i = 0
    /\ pass2_i = 0
    /\ pos = 0
    /\ n = Unbound
    /\ stats = [save_pass2 |-> 0, save_pass2_total |-> 0, read_bp |-> 0,
                read_reads |-> 0, wrote_bp |-> 0, wrote_reads |-> 0,
                trimmed_reads |-> 0, skipped_n |-> 0, skipped_bp |-> 0]
    /\ log = <<>>

\* ---------------------------------------------------------- set-up

Exit(status) ==
    /\ pc' = "done"
    /\ exit_status' = status

HasDuplicates(filenames) ==
    Cardinality({filenames[i] : i \in 1..Len(filenames)}) # Len(filenames)

\* Lines 119-122.
CheckArgs ==
    /\ pc = "check_args"
    /\ IF HasDuplicates(input_filenames)
       THEN Exit("ConfigError")
       ELSE pc' = "make_table" /\ UNCHANGED exit_status
    /\ UNCHANGED <<config, ht, fs, pass2list, file_i, pass2_i, pos, n, stats, log>>

\* Lines 126-134.
MakeTable ==
    /\ pc = "make_table"
    /\ ht' = new_counting_hash(ksize, HT_SIZE, N_HT)
    /\ pc' = "make_tempdir"
    /\ UNCHANGED <<config, exit_status, fs, pass2list, file_i, pass2_i, pos, n, stats,
                   log>>

\* Lines 136-149.
MakeTempdir ==
    /\ pc = "make_tempdir"
    /\ fs' = [fs EXCEPT !.tempdir = TRUE]
    /\ file_i' = 1
    /\ pc' = "pass1_open"
    /\ UNCHANGED <<config, exit_status, ht, pass2list, pass2_i, pos, n, stats, log>>

\* ------------------------------------------------- per-record decisions

\* Line 212 with the limit itself counted as low coverage.
DeferSingle_AtLimit(med) == med <= NORMALIZE_LIMIT

\* Line 212.
DeferSingle(med) == med < NORMALIZE_LIMIT

\* Line 180 asking both mates to be of low coverage.
DeferPair_Both(med1, med2) == med1 < NORMALIZE_LIMIT /\ med2 < NORMALIZE_LIMIT

\* Line 180.
DeferPair(med1, med2) == med1 < NORMALIZE_LIMIT \/ med2 < NORMALIZE_LIMIT

\* Lines 189, 192, 218 and 269.
LongEnough(trim_at, K) == trim_at >= K

\* Line 258 without the test of the option.
RetainUnchanged_NoOption(med, variable) == med < NORMALIZE_LIMIT

\* Line 258.
RetainUnchanged(med, variable) == med < NORMALIZE_LIMIT /\ variable

\* Lines 195-198, 225 and 276.
CountTrimmed(trim_at, length) == IF trim_at # length THEN 1 ELSE 0

\* History entry for one record: what was queried and what was done.
\* decision is "deferred", "trimmed" (written after trim_record),
\* "untrimmed" (written as read after a trim decision), "unchanged"
\* (written without a trim decision) or "dropped".
LogEntry(pass, fi, yield_n, read, is_pair, med, trim_applied, trim_at, decision, out) ==
    [pass |-> pass, file |-> fi, yield |-> yield_n, read |-> read,
     is_pair |-> is_pair, med |-> med, trim_applied |-> trim_applied,
     trim_at |-> trim_at, decision |-> decision, out |-> out]

\* Lines 204-226: what the loop body does with an unpaired read.
Pass1Single(ht0, K, fi, y) ==
    LET read1 == y.read1
        seq == replace_N_A(read1.sequence)
        med == get_median_count(ht0, K, seq)
        trim_at == trim_on_abundance(ht0, K, seq, CUTOFF)
        new_read == trim_record(read1, trim_at)
    IN  IF DeferSingle(med)
        THEN [ht |-> consume(ht0, K, seq),
              pass2 |-> write_record(read1), trim |-> <<>>,
              save_pass2 |-> 1, trimmed_reads |-> 0,
              wrote_reads |-> 0, wrote_bp |-> 0,
              log |-> <<LogEntry(1, fi, y.n, read1, FALSE, med, FALSE, 0,
                                 "deferred", NoRecord)>>]
        ELSE IF LongEnough(trim_at, K)
        THEN [ht |-> ht0,
              pass2 |-> <<>>, trim |-> write_record(new_read),
              save_pass2 |-> 0,
              trimmed_reads |-> CountTrimmed(trim_at, Len(read1.sequence)),
              wrote_reads |-> 1, wrote_bp |-> trim_at,
              log |-> <<LogEntry(1, fi, y.n, read1, FALSE, med, TRUE, trim_at,
                                 "trimmed", new_read)>>]
        ELSE [ht |-> ht0,
              pass2 |-> <<>>, trim |-> <<>>,
              save_pass2 |-> 0, trimmed_reads |-> 0,
              wrote_reads |-> 0, wrote_bp |-> 0,
              log |-> <<LogEntry(1, fi, y.n, read1, FALSE, med, TRUE, trim_at,
                                 "dropped", NoRecord)>>]

\* Lines 181-182 with the second mate left out.
consume_pair_FirstMate(ht0, K, seq1, seq2) == consume(ht0, K, seq1)

\* Lines 181-182: ht.consume(seq1); ht.consume(seq2).
consume_pair(ht0, K, seq1, seq2) == consume(consume(ht0, K, seq1), K, seq2)

\* Lines 171-202: what the loop body does with a pair.
Pass1Pair(ht0, K, fi, y) ==
    LET seq1 == replace_N_A(y.read1.sequence)
        seq2 == replace_N_A(y.read2.sequence)
        med1 == get_median_count(ht0, K, seq1)
        med2 == get_median_count(ht0, K, seq2)
        trim_at1 == trim_on_abundance(ht0, K, seq1, CUTOFF)
        trim_at2 == trim_on_abundance(ht0, K, seq2, CUTOFF)
        read1 == IF LongEnough(trim_at1, K) THEN trim_record(y.read1, trim_at1)
                 ELSE y.read1
        read2 == IF LongEnough(trim_at2, K) THEN trim_record(y.read2, trim_at2)
                 ELSE y.read2
    IN  IF DeferPair(med1, med2)
        THEN [ht |-> consume_pair(ht0, K, seq1, seq2),
              pass2 |-> write_record_pair(y.read1, y.read2), trim |-> <<>>,
              save_pass2 |-> 2, trimmed_reads |-> 0,
              wrote_reads |-> 0, wrote_bp |-> 0,
              log |-> <<LogEntry(1, fi, y.n, y.read1, TRUE, med1, FALSE, 0,
                                 "deferred", NoRecord),
                        LogEntry(1, fi, y.n, y.read2, TRUE, med2, FALSE, 0,
                                 "deferred", NoRecord)>>]
        ELSE [ht |-> ht0,
              pass2 |-> <<>>, trim |-> write_record_pair(read1, read2),
              save_pass2 |-> 0,
              trimmed_reads |-> CountTrimmed(trim_at1, Len(seq1))
                                + CountTrimmed(trim_at2, Len(seq2)),
              wrote_reads |-> 2, wrote_bp |-> trim_at1 + trim_at2,
              log |-> <<LogEntry(1, fi, y.n, y.read1, TRUE, med1, TRUE, trim_at1,
                                 IF LongEnough(trim_at1, K) THEN "trimmed"
                                 ELSE "untrimmed", read1),
                        LogEntry(1, fi, y.n, y.read2, TRUE, med2, TRUE, trim_at2,
                                 IF LongEnough(trim_at2, K) THEN "trimmed"
                                 ELSE "untrimmed", read2)>>]

Pass1Body(ht0, K, fi, y) ==
    IF y.is_pair THEN Pass1Pair(ht0, K, fi, y) ELSE Pass1Single(ht0, K, fi, y)

\* Lines 171-172 and 204-205.
ReadRecords(y) == IF y.is_pair THEN 2 ELSE 1
ReadBp(y) ==
    IF y.is_pair THEN Len(y.read1.sequence) + Len(y.read2.sequence)
    ELSE Len(y.read1.sequence)

\* The median query of lines 177-178 or 208 raises.
Pass1Raises(K, y) ==
    \/ TooShort(K, replace_N_A(y.read1.sequence))
    \/ y.is_pair /\ TooShort(K, replace_N_A(y.read2.sequence))

\* Line 301 with the comparison turned round.
ExceedsMaxRate_Below(fp_rate) ==
    fp_rate[1] * MAX_FALSE_POSITIVE_RATE_DEN < MAX_FALSE_POSITIVE_RATE_NUM * fp_rate[2]

\* Line 301: fp_rate > MAX_FALSE_POSITIVE_RATE, on fractions.
ExceedsMaxRate(fp_rate) ==
    fp_rate[1] * MAX_FALSE_POSITIVE_RATE_DEN > MAX_FALSE_POSITIVE_RATE_NUM * fp_rate[2]

\* ------------------------------------------------------------- pass 1

filename == input_filenames[file_i]
pass2filename == basename(filename)
trimfilename == basename(filename)

\* A write that puts the entries before what the file holds.
Append2_AtFront(file, entries) == [file EXCEPT !.records = entries \o @]

\* file.write on an open file: the entries go to its end.
Append2(file, entries) == [file EXCEPT !.records = @ \o entries]

\* Line 134 moved into the loop of line 150: a new table for each file.
TableForFile_Fresh(ht0, i) ==
    IF i > 1 THEN new_counting_hash(0, HT_SIZE, N_HT) ELSE ht0

\* Lines 134 and 150: the table is made once, before the loop over the
\* files, and file number i goes on with the table as the files before
\* it left it.
TableForFile(ht0, i) == ht0

\* Line 248 with mode 'w'.
open_truncate(file) == EmptyFile

\* Line 248: open(trimfilename, 'a').
open_append(file) == IF file.exists THEN file ELSE EmptyFile

\* Lines 150-161: the next file of the loop is opened.
Pass1Open ==
    /\ pc = "pass1_open"
    /\ file_i <= Len(input_filenames)
    /\ pass2list' = Append(pass2list, <<filename, pass2filename, trimfilename>>)
    /\ fs' = [fs EXCEPT !.pass2[pass2filename] = EmptyFile,
                        !.trim[trimfilename] = EmptyFile]
    /\ stats' = [stats EXCEPT !.save_pass2 = 0]
    /\ pos' = 0
    /\ ht' = TableForFile(ht, file_i)
    /\ pc' = "pass1_loop"
    /\ UNCHANGED <<config, exit_status, file_i, pass2_i, n, log>>

\* Line 157: the input cannot be opened.
Pass1OpenError ==
    /\ pc = "pass1_open"
    /\ file_i <= Len(input_filenames)
    /\ pass2list' = Append(pass2list, <<filename, pass2filename, trimfilename>>)
    /\ Exit("IOError")
    /\ UNCHANGED <<config, ht, fs, file_i, pass2_i, pos, n, stats, log>>

\* Lines 162-226: one turn of the loop over the reader.
Pass1Record ==
    /\ pc = "pass1_loop"
    /\ pos < Len(disk[filename])
    /\ LET y == disk[filename][pos + 1] IN
          /\ ~Pass1Raises(ksize, y)
          /\ LET did == Pass1Body(ht, ksize, file_i, y) IN
                /\ ht' = did.ht
                /\ fs' = [fs EXCEPT
                            !.pass2[pass2filename] = Append2(@, did.pass2),
                            !.trim[trimfilename] = Append2(@, did.trim)]
                /\ stats' = [stats EXCEPT
                               !.read_reads = @ + ReadRecords(y),
                               !.read_bp = @ + ReadBp(y),
                               !.save_pass2 = @ + did.save_pass2,
                               !.trimmed_reads = @ + did.trimmed_reads,
                               !.wrote_reads = @ + did.wrote_reads,
                               !.wrote_bp = @ + did.wrote_bp]
                /\ log' = log \o did.log
          /\ n' = y.n
    /\ pos' = pos + 1
    /\ UNCHANGED <<config, pc, exit_status, pass2list, file_i, pass2_i>>

\* Lines 177-178 and 208: the median query raises on a read with no k-mer.
Pass1TooShort ==
    /\ pc = "pass1_loop"
    /\ pos < Len(disk[filename])
    /\ LET y == disk[filename][pos + 1] IN
          /\ Pass1Raises(ksize, y)
          /\ stats' = [stats EXCEPT !.read_reads = @ + ReadRecords(y),
                                    !.read_bp = @ + ReadBp(y)]
          /\ n' = y.n
    /\ Exit("ValueError")
    /\ UNCHANGED <<config, ht, fs, pass2list, file_i, pass2_i, pos, log>>

\* Line 162: the reader fails.
Pass1ReadError ==
    /\ pc = "pass1_loop"
    /\ Exit("IOError")
    /\ UNCHANGED <<config, ht, fs, pass2list, file_i, pass2_i, pos, n, stats, log>>

\* Lines 183, 200, 214 and 220: the write fails, after what precedes it.
Pass1WriteError ==
    /\ pc = "pass1_loop"
    /\ pos < Len(disk[filename])
    /\ LET y == disk[filename][pos + 1] IN
          /\ ~Pass1Raises(ksize, y)
          /\ LET did == Pass1Body(ht, ksize, file_i, y) IN
                /\ did.pass2 # <<>> \/ did.trim # <<>>
                /\ ht' = did.ht
                /\ stats' = [stats EXCEPT
                               !.read_reads = @ + ReadRecords(y),
                               !.read_bp = @ + ReadBp(y),
                               !.trimmed_reads =
                                   @ + (IF y.is_pair THEN did.trimmed_reads ELSE 0)]
          /\ n' = y.n
    /\ Exit("IOError")
    /\ UNCHANGED <<config, fs, pass2list, file_i, pass2_i, pos, log>>

\* Lines 239-280 moved into the loop of line 150: the second pass of
\* file i follows its first pass at once.
AfterPass1File_Interleaved(i, n_files) ==
    [pc |-> "pass2_open", file_i |-> i + 1, pass2_i |-> i]

\* Where main() goes when the pass-1 loop body of file i ends: the loop
\* of line 150 takes the next file, and line 239 follows its last turn.
AfterPass1File(i, n_files) ==
    IF i < n_files THEN [pc |-> "pass1_open", file_i |-> i + 1, pass2_i |-> 0]
    ELSE [pc |-> "pass2_open", file_i |-> i + 1, pass2_i |-> 1]

\* Lines 228-233: the reader is exhausted.  n is unbound when no file
\* has yielded anything yet.
Pass1Close ==
    /\ pc = "pass1_loop"
    /\ pos = Len(disk[filename])
    /\ IF n = Unbound
       THEN /\ Exit("UnboundLocalError")
            /\ UNCHANGED <<stats, file_i, pass2_i>>
       ELSE /\ stats' = [stats EXCEPT !.save_pass2_total = @ + stats.save_pass2]
            /\ LET next == AfterPass1File(file_i, Len(input_filenames)) IN
                  /\ pc' = next.pc
                  /\ file_i' = next.file_i
                  /\ pass2_i' = next.pass2_i
            /\ UNCHANGED exit_status
    /\ UNCHANGED <<config, ht, fs, pass2list, pos, n, log>>

\* Lines 150-233 as a function: the table after pass 1 over the files
\* in the order given, the names of the records kept aside, and whether
\* pass 1 ran to its end (no median query raised, n was bound).
RECURSIVE Pass1Yields(_, _, _, _, _)
Pass1Yields(st, K, fi, yields, j) ==
    IF ~st.ok \/ j > Len(yields) THEN st
    ELSE IF Pass1Raises(K, yields[j]) THEN [st EXCEPT !.ok = FALSE]
    ELSE LET did == Pass1Body(st.ht, K, fi, yields[j])
         IN  Pass1Yields([ht |-> did.ht, n_bound |-> TRUE, ok |-> TRUE,
                          deferred |-> st.deferred \cup
                              {did.pass2[k].name : k \in 1..Len(did.pass2)}],
                         K, fi, yields, j + 1)

RECURSIVE Pass1Files(_, _, _, _)
Pass1Files(st, K, files, i) ==
    IF ~st.ok \/ i > Len(files) THEN st
    ELSE LET st1 == Pass1Yields([st EXCEPT !.ht = TableForFile(st.ht, i)],
                                K, i, disk[files[i]], 1)
         IN  IF st1.ok /\ ~st1.n_bound THEN [st1 EXCEPT !.ok = FALSE]
             ELSE Pass1Files(st1, K, files, i + 1)

RunPass1(files) ==
    Pass1Files([ht |-> new_counting_hash(ksize, HT_SIZE, N_HT), n_bound |-> FALSE,
                ok |-> TRUE, deferred |-> {}],
               ksize, files, 1)

\* ------------------------------------------------------------- pass 2

\* Lines 254-277: what the loop body does with a record of the pass-2 file.
Pass2Body(ht0, K, variable, fi, rec_n, read) ==
    LET seq == replace_N_A(read.sequence)
        med == get_median_count(ht0, K, seq)
        trim_at == trim_on_abundance(ht0, K, seq, CUTOFF)
        new_read == trim_record(read, trim_at)
    IN  IF RetainUnchanged(med, variable)
        THEN [trim |-> write_record(read),
              wrote_reads |-> 1, wrote_bp |-> Len(read.sequence),
              skipped_n |-> 1, skipped_bp |-> Len(read.sequence),
              trimmed_reads |-> 0,
              log |-> <<LogEntry(2, fi, rec_n, read, FALSE, med, FALSE, 0,
                                 "unchanged", read)>>]
        ELSE IF LongEnough(trim_at, K)
        THEN [trim |-> write_record(new_read),
              wrote_reads |-> 1, wrote_bp |-> trim_at,
              skipped_n |-> 0, skipped_bp |-> 0,
              trimmed_reads |-> CountTrimmed(trim_at, Len(read.sequence)),
              log |-> <<LogEntry(2, fi, rec_n, read, FALSE, med, TRUE, trim_at,
                                 "trimmed", new_read)>>]
        ELSE [trim |-> <<>>,
              wrote_reads |-> 0, wrote_bp |-> 0,
              skipped_n |-> 0, skipped_bp |-> 0,
              trimmed_reads |-> 0,
              log |-> <<LogEntry(2, fi, rec_n, read, FALSE, med, TRUE, trim_at,
                                 "dropped", NoRecord)>>]

pass2entry == pass2list[pass2_i]

\* Lines 239-249: the next pass-2 file is opened; its output is opened for
\* appending first.
Pass2Open ==
    /\ pc = "pass2_open"
    /\ pass2_i <= Len(pass2list)
    /\ fs' = [fs EXCEPT !.trim[pass2entry[3]] = open_append(@)]
    /\ IF fs.pass2[pass2entry[2]].exists
       THEN pc' = "pass2_loop" /\ UNCHANGED exit_status
       ELSE Exit("IOError")
    /\ pos' = 0
    /\ UNCHANGED <<config, ht, pass2list, file_i, pass2_i, n, stats, log>>

\* Lines 249-277 with an ht.consume(seq) before the decision, as in the
\* deferring branch of pass 1.
Pass2Record_Consuming ==
    /\ pc = "pass2_loop"
    /\ pos < Len(fs.pass2[pass2entry[2]].records)
    /\ LET read == screed_record(fs.pass2[pass2entry[2]].records[pos + 1])
           did == Pass2Body(ht, ksize, variable_coverage, pass2_i, pos, read)
       IN  /\ ht' = consume(ht, ksize, replace_N_A(read.sequence))
           /\ fs' = [fs EXCEPT !.trim[pass2entry[3]] = Append2(@, did.trim)]
           /\ stats' = [stats EXCEPT
                          !.wrote_reads = @ + did.wrote_reads,
                          !.wrote_bp = @ + did.wrote_bp,
                          !.skipped_n = @ + did.skipped_n,
                          !.skipped_bp = @ + did.skipped_bp,
                          !.trimmed_reads = @ + did.trimmed_reads]
           /\ log' = log \o did.log
    /\ n' = pos
    /\ pos' = pos + 1
    /\ UNCHANGED <<config, pc, exit_status, pass2list, file_i, pass2_i>>

\* Lines 249-277: one turn of the loop over the records kept aside.
Pass2Record ==
    /\ pc = "pass2_loop"
    /\ pos < Len(fs.pass2[pass2entry[2]].records)
    /\ LET read == screed_record(fs.pass2[pass2entry[2]].records[pos + 1])
           did == Pass2Body(ht, ksize, variable_coverage, pass2_i, pos, read)
       IN  /\ fs' = [fs EXCEPT !.trim[pass2entry[3]] = Append2(@, did.trim)]
           /\ stats' = [stats EXCEPT
                          !.wrote_reads = @ + did.wrote_reads,
                          !.wrote_bp = @ + did.wrote_bp,
                          !.skipped_n = @ + did.skipped_n,
                          !.skipped_bp = @ + did.skipped_bp,
                          !.trimmed_reads = @ + did.trimmed_reads]
           /\ log' = log \o did.log
    /\ n' = pos
    /\ pos' = pos + 1
    /\ UNCHANGED <<config, pc, exit_status, ht, pass2list, file_i, pass2_i>>

\* Line 249: reading the pass-2 file fails.
Pass2ReadError ==
    /\ pc = "pass2_loop"
    /\ Exit("IOError")
    /\ UNCHANGED <<config, ht, fs, pass2list, file_i, pass2_i, pos, n, stats, log>>

\* Lines 259 and 271: the write fails.
Pass2WriteError ==
    /\ pc = "pass2_loop"
    /\ pos < Len(fs.pass2[pass2entry[2]].records)
    /\ LET read == screed_record(fs.pass2[pass2entry[2]].records[pos + 1])
           did == Pass2Body(ht, ksize, variable_coverage, pass2_i, pos, read)
       IN  did.trim # <<>>
    /\ n' = pos
    /\ Exit("IOError")
    /\ UNCHANGED <<config, ht, fs, pass2list, file_i, pass2_i, pos, stats, log>>

\* Lines 279-280: the pass-2 file has been read through and is unlinked.
Pass2Close ==
    /\ pc = "pass2_loop"
    /\ pos = Len(fs.pass2[pass2entry[2]].records)
    /\ fs' = [fs EXCEPT !.pass2[pass2entry[2]] = NoFile]
    /\ pass2_i' = pass2_i + 1
    /\ pc' = "pass2_open"
    /\ UNCHANGED <<config, exit_status, ht, pass2list, file_i, pos, n, stats, log>>

\* Lines 282-283: shutil.rmtree(tempdir), after the last pass-2 file.
RemoveTempdir ==
    /\ pc = "pass2_open"
    /\ pass2_i > Len(pass2list)
    /\ fs' = [fs EXCEPT !.tempdir = FALSE,
                        !.pass2 = [b \in Basenames |-> NoFile]]
    /\ pc' = "report"
    /\ UNCHANGED <<config, exit_status, ht, pass2list, file_i, pass2_i, pos, n, stats,
                   log>>

\* Lines 285-310: the summary, whose percentage divides by read_bp, then
\* the false-positive check.
Report ==
    /\ pc = "report"
    /\ IF stats.read_bp = 0 THEN Exit("ZeroDivisionError")
       ELSE IF ExceedsMaxRate(calc_expected_collisions(ht)) THEN Exit("TableUndersized")
       ELSE Exit("ok")
    /\ UNCHANGED <<config, ht, fs, pass2list, file_i, pass2_i, pos, n, stats, log>>

Next ==
    \/ CheckArgs
    \/ MakeTable
    \/ MakeTempdir
    \/ Pass1Open
    \/ Pass1OpenError
    \/ Pass1Record
    \/ Pass1TooShort
    \/ Pass1ReadError
    \/ Pass1WriteError
    \/ Pass1Close
    \/ Pass2Open
    \/ Pass2Record
    \/ Pass2ReadError
    \/ Pass2WriteError
    \/ Pass2Close
    \/ RemoveTempdir
    \/ Report

Spec == Init /\ [][Next]_vars

\* ------------------------------------------------------ vocabulary

LogIdx == 1..Len(log)

FileSet == {input_filenames[i] : i \in 1..Len(input_filenames)}

\* Every record the input files hold.
InputRecords ==
    UNION { {disk[f][j].read1 : j \in 1..Len(disk[f])}
            \cup {disk[f][j].read2 : j \in {k \in 1..Len(disk[f]) : disk[f][k].is_pair}}
          : f \in FileSet }

\* Places of a set of files that hold a record of this name.
PlacesIn(files, name) ==
    {<<b, k>> \in Basenames \X (1..(2 * MaxYields)) :
        /\ k <= Len(files[b].records)
        /\ files[b].records[k].name = name}

\* Places of the final output files that hold a record of this name.
WrittenAt(name) == PlacesIn(fs.trim, name)

\* Places of the pass-2 files that hold a record of this name.
DeferredAt(name) == PlacesIn(fs.pass2, name)

Completed == exit_status \in {"ok", "TableUndersized"}

Pass1Stepping == pc = "pass1_loop" /\ pos' = pos + 1

\* -------------------------------------------------------------- claims

\* C1: in pass 1 an unpaired record whose median k-mer abundance (of the
\* N->A sequence, in the table as it stands) is below NORMALIZE_LIMIT is
\* consumed into the table and appended to the file's pass-2 store, and
\* nothing is written to the final output; otherwise the table and the
\* store stay as they are and trim_on_abundance with CUTOFF decides whether
\* the record is written or dropped.
C1_UnpairedDeferOrTrim ==
    [][ (Pass1Stepping /\ ~disk[filename][pos + 1].is_pair) =>
          LET read1 == disk[filename][pos + 1].read1
              seq == replace_N_A(read1.sequence)
              med == get_median_count(ht, ksize, seq)
              trim_at == trim_on_abundance(ht, ksize, seq, CUTOFF)
              b == basename(filename)
          IN  IF med < NORMALIZE_LIMIT
              THEN /\ ht' = consume(ht, ksize, seq)
                   /\ fs'.pass2 = [fs.pass2 EXCEPT ![b].records = @ \o write_record(read1)]
                   /\ fs'.trim = fs.trim
              ELSE /\ ht' = ht
                   /\ fs'.pass2 = fs.pass2
                   /\ IF trim_at >= ksize
                      THEN /\ Len(fs'.trim[b].records) = Len(fs.trim[b].records) + 1
                           /\ fs'.trim[b].records[Len(fs'.trim[b].records)].name = read1.name
                      ELSE fs'.trim = fs.trim ]_vars

C1_Witness ==
    \E i, j \in LogIdx :
        /\ log[i].pass = 1 /\ ~log[i].is_pair /\ log[i].decision = "deferred"
        /\ log[j].pass = 1 /\ ~log[j].is_pair /\ log[j].decision = "trimmed"
        /\ ksize > 0

\* C2: in pass 1 a pair one of whose mates has a median below
\* NORMALIZE_LIMIT is deferred whole: both mates are consumed, both are
\* appended to the pass-2 store, neither is written to the final output.
\* Mates are written in pass 1 only when both medians reach the limit.
C2_PairDeferredTogether ==
    [][ (Pass1Stepping /\ disk[filename][pos + 1].is_pair) =>
          LET y == disk[filename][pos + 1]
              seq1 == replace_N_A(y.read1.sequence)
              seq2 == replace_N_A(y.read2.sequence)
              med1 == get_median_count(ht, ksize, seq1)
              med2 == get_median_count(ht, ksize, seq2)
              b == basename(filename)
          IN  IF med1 < NORMALIZE_LIMIT \/ med2 < NORMALIZE_LIMIT
              THEN /\ ht' = consume(consume(ht, ksize, seq1), ksize, seq2)
                   /\ fs'.pass2 = [fs.pass2 EXCEPT
                                     ![b].records = @ \o write_record_pair(y.read1, y.read2)]
                   /\ fs'.trim = fs.trim
                   /\ PlacesIn(fs'.trim, y.read1.name) = {}
                   /\ PlacesIn(fs'.trim, y.read2.name) = {}
              ELSE /\ ht' = ht
                   /\ fs'.pass2 = fs.pass2
                   /\ PlacesIn(fs'.pass2, y.read1.name) = {}
                   /\ PlacesIn(fs'.pass2, y.read2.name) = {}
                   /\ PlacesIn(fs'.trim, y.read1.name) # {}
                   /\ PlacesIn(fs'.trim, y.read2.name) # {} ]_vars

C2_Witness ==
    \E i, j \in LogIdx :
        /\ log[i].pass = 1 /\ log[i].is_pair /\ log[j].pass = 1 /\ log[j].is_pair
        /\ log[i].file = log[j].file /\ log[i].yield = log[j].yield
        /\ log[i].med >= NORMALIZE_LIMIT /\ log[j].med < NORMALIZE_LIMIT
        /\ log[i].decision = "deferred" /\ log[j].decision = "deferred"
        /\ DeferredAt(log[i].read.name) # {} /\ DeferredAt(log[j].read.name) # {}

\* C3: a record for which trim_on_abundance returned trim_at < K is never
\* written to the final output, whether the trim decision was taken on an
\* unpaired record of pass 1, on a mate of a pass-1 pair or in pass 2.
\* Stated for runs with a valid k-mer size.
C3_ShortTrimNeverWritten ==
    ksize > 0 =>
        \A i \in LogIdx :
            (log[i].trim_applied /\ log[i].trim_at < ksize)
                => WrittenAt(log[i].read.name) = {}

\* C4: when the run completes, every input record has one terminal outcome:
\* it is in the final output once, or it was dropped and is in no output;
\* a record deferred in pass 1 was deferred once and decided once by pass 2,
\* pass 2 defers nothing, no pass-2 store holds a record any more, and the
\* summary's removed reads are the dropped ones.
C4_OneTerminalOutcome ==
    Completed =>
        /\ \A r \in InputRecords :
              LET mine == {i \in LogIdx : log[i].read.name = r.name}
                  deferred == {i \in mine : log[i].decision = "deferred"}
                  terminal == {i \in mine : log[i].decision # "deferred"}
              IN  /\ Cardinality(terminal) = 1
                  /\ Cardinality(deferred) <= 1
                  /\ \A t \in terminal :
                        /\ log[t].pass = (IF deferred = {} THEN 1 ELSE 2)
                        /\ \A d \in deferred : d < t
                        /\ Cardinality(WrittenAt(r.name)) =
                              (IF log[t].decision = "dropped" THEN 0 ELSE 1)
                  /\ DeferredAt(r.name) = {}
        /\ \A i \in LogIdx :
              /\ log[i].pass = 2 => log[i].decision # "deferred"
              /\ \E r \in InputRecords : r.name = log[i].read.name
        /\ \A b \in Basenames :
              \A k \in 1..Len(fs.trim[b].records) :
                 \E r \in InputRecords : r.name = fs.trim[b].records[k].name
        /\ stats.read_reads = Cardinality(InputRecords)
        /\ stats.read_reads - stats.wrote_reads =
              Cardinality({i \in LogIdx : log[i].decision = "dropped"})

C4_Witness ==
    /\ Completed
    /\ \E i, j, k \in LogIdx :
          /\ log[i].pass = 1 /\ log[i].decision = "deferred"
          /\ log[j].pass = 2 /\ log[j].read.name = log[i].read.name
          /\ log[j].decision = "dropped"
          /\ log[k].pass = 1 /\ log[k].decision = "trimmed"

\* The record of the input files that has this name.
InputRecord(name) == CHOOSE r \in InputRecords : r.name = name

\* C5: with variable_coverage, a pass-2 record whose median, taken again,
\* is still below NORMALIZE_LIMIT is in the final output as it was read
\* from the input (name, whole sequence, whole quality) and no trim
\* decision is taken on it, whatever trim_on_abundance would return; no
\* other pass-2 record, and none without variable_coverage, takes that path.
C5_LowCoverageKeptWhole ==
    \A i \in LogIdx :
        log[i].pass = 2 =>
            LET read == log[i].read
                med == get_median_count(ht, ksize, replace_N_A(read.sequence))
                orig == InputRecord(read.name)
            IN  IF variable_coverage /\ med < NORMALIZE_LIMIT
                THEN /\ log[i].decision = "unchanged"
                     /\ ~log[i].trim_applied
                     /\ \E w \in WrittenAt(read.name) :
                           LET e == fs.trim[w[1]].records[w[2]]
                           IN  /\ e.sequence = orig.sequence
                               /\ e.accuracy = orig.accuracy
                               /\ (e.format = "fastq") = orig.has_accuracy
                ELSE /\ log[i].decision \in {"trimmed", "dropped"}
                     /\ log[i].trim_applied
                     /\ log[i].trim_at =
                           trim_on_abundance(ht, ksize, replace_N_A(read.sequence), CUTOFF)

C5_Witness ==
    /\ variable_coverage
    /\ \E i \in LogIdx :
          /\ log[i].pass = 2
          /\ log[i].decision = "unchanged"
          /\ trim_on_abundance(ht, ksize, replace_N_A(log[i].read.sequence), CUTOFF) < ksize
          /\ WrittenAt(log[i].read.name) # {}

\* The same files in every order.
Orders(files) ==
    {o \in [1..Len(files) -> FileSet] : {o[i] : i \in 1..Len(files)} = FileSet}

DeferredNames == {log[i].read.name : i \in {k \in LogIdx : log[k].decision = "deferred"}}

\* C6 as stated: a run over the same files in another order ends with the
\* same counting table.  Stated for runs with a valid k-mer size.
C6_TableSameInAnyOrder ==
    (Completed /\ ksize > 0) =>
        \A o \in Orders(input_filenames) :
            RunPass1(o).ok => RunPass1(o).ht = ht

\* C6 amended: a run over the same files in another order ends with the
\* same counting table when it keeps aside the same records in pass 1.
C6_TableSameWhenSameDeferred ==
    Completed =>
        \A o \in Orders(input_filenames) :
            (RunPass1(o).ok /\ RunPass1(o).deferred = DeferredNames)
                => RunPass1(o).ht = ht

C6_Witness ==
    /\ Completed
    /\ ksize > 0
    /\ \E o \in Orders(input_filenames) :
          /\ o # input_filenames
          /\ RunPass1(o).ok
          /\ RunPass1(o).deferred = DeferredNames
          /\ \A f \in FileSet : \E nm \in DeferredNames : nm[1] = f

Pass2Begun == pc \in {"pass2_open", "pass2_loop"}

\* C7: while the second pass runs, the first pass is over for every input
\* file: the loop over the files has left its last file, the table is the
\* one pass 1 over all the files leaves, and every pass-2 decision comes
\* after the pass-1 decision on every record of every file.
C7_Pass2AfterAllPass1 ==
    /\ Pass2Begun =>
          /\ file_i > Len(input_filenames)
          /\ Len(pass2list) = Len(input_filenames)
          /\ ht = RunPass1(input_filenames).ht
    /\ \A i \in LogIdx :
          log[i].pass = 2 =>
              \A r \in InputRecords :
                  \E j \in 1..(i - 1) : log[j].pass = 1 /\ log[j].read.name = r.name

C7_Witness ==
    /\ pc = "pass2_loop"
    /\ pos >= 1
    /\ Len(input_filenames) = 2
    /\ \A f \in FileSet : Len(disk[f]) > 0
    /\ \E i \in LogIdx : log[i].pass = 2 /\ log[i].file = 2

NoStoreLeft == ~fs.tempdir /\ \A b \in Basenames : ~fs.pass2[b].exists

\* C8: however the run ends, no pass-2 file and no temporary directory is
\* left behind.  Stated for runs with a valid k-mer size; a run that ends
\* on the check of the arguments has made none.
C8_NoStoreLeftBehind == (pc = "done" /\ ksize > 0) => NoStoreLeft

AllDecided ==
    \A r \in InputRecords :
        \E i \in LogIdx :
            /\ log[i].read.name = r.name
            /\ log[i].decision # "deferred"
            /\ log[i].decision # "dropped" => WrittenAt(r.name) # {}

AllOutputProduced ==
    /\ Len(pass2list) = Len(input_filenames)
    /\ pass2_i > Len(pass2list)
    /\ AllDecided
    /\ NoStoreLeft

\* C9: the run ends with the table-too-small failure only when the
\* estimated false-positive rate is above MAX_FALSE_POSITIVE_RATE, and only
\* after pass 2 is over for every file, every record is decided, what was
\* written is in the output and the pass-2 stores are gone; it ends well
\* only when the rate is not above the maximum, after the same.
C9_UndersizedAfterAllOutput ==
    LET fp_rate == calc_expected_collisions(ht)
        above == fp_rate[1] * MAX_FALSE_POSITIVE_RATE_DEN
                     > MAX_FALSE_POSITIVE_RATE_NUM * fp_rate[2]
    IN  /\ exit_status = "TableUndersized" => above /\ AllOutputProduced
        /\ exit_status = "ok" => ~above /\ AllOutputProduced
        /\ pc = "report" => AllOutputProduced

C9_Witness ==
    /\ exit_status = "TableUndersized"
    /\ ksize > 0
    /\ \E i, j \in LogIdx :
          /\ log[i].decision = "deferred"
          /\ log[j].pass = 2 /\ log[j].decision = "trimmed"
          /\ WrittenAt(log[j].read.name) # {}

\* C10: when a filename is given twice or the k-mer size is not positive,
\* the run ends in failure with no table made, no temporary directory, no
\* pass-2 file and no output file created, and no record read.
C10_ConfigErrorBeforeProcessing ==
    (HasDuplicates(input_filenames) \/ ksize <= 0) =>
        /\ ht = <<>>
        /\ ~fs.tempdir
        /\ \A b \in Basenames : ~fs.pass2[b].exists /\ ~fs.trim[b].exists
        /\ stats.read_reads = 0
        /\ log = <<>>
        /\ pc = "done" => exit_status = "ConfigError"

\* The yields of the readers that hold two mates.
PairYields ==
    UNION { {disk[f][j] : j \in {k \in 1..Len(disk[f]) : disk[f][k].is_pair}}
          : f \in FileSet }

BothWritten(y) == WrittenAt(y.read1.name) # {} /\ WrittenAt(y.read2.name) # {}

\* C11: when both mates of a pair the reader yielded are in the final
\* output, they are in one output file, each once, mate 1 at some place k
\* and mate 2 at place k + 1, whether pass 1 wrote the pair or pass 2 wrote
\* the mates from the pass-2 store.
C11_PairsAdjacentInOutput ==
    \A y \in PairYields :
        BothWritten(y) =>
            \E b \in Basenames, k \in 1..(2 * MaxYields) :
                /\ WrittenAt(y.read1.name) = {<<b, k>>}
                /\ WrittenAt(y.read2.name) = {<<b, k + 1>>}

C11_Witness ==
    /\ Completed
    /\ ksize > 0
    /\ \E y1, y2 \in PairYields :
          /\ BothWritten(y1) /\ BothWritten(y2)
          /\ \E i \in LogIdx :
                log[i].pass = 1 /\ log[i].decision # "deferred"
                /\ log[i].read.name = y1.read1.name
          /\ \E i, j \in LogIdx :
                /\ log[i].pass = 2 /\ log[i].read.name = y2.read1.name
                /\ log[j].pass = 2 /\ log[j].read.name = y2.read2.name

\* The keys of the k-mers of a sequence, from left to right.
KeysOf(S, K) ==
    SubSeq([q \in 1..(Len(S) - K + 1) |-> encode(kmer_at(S, q - 1, K))],
           1, Len(S) - K + 1)

\* The sequences the table is asked about: those of the readers, N as A.
QuerySequences ==
    UNION { {replace_N_A(k[i][1]) : i \in 1..Len(k)} : k \in YieldKinds }

Cutoffs == 1..(CUTOFF + 1)

\* Offsets of the k-mers of seq the table counts below the cutoff.
LowOffsets(table, K, seq, cutoff) ==
    {p \in kmer_positions(seq, K) :
        get_count(table, encode(kmer_at(seq, p, K))) < cutoff}

\* C12: in every table the run reaches, for every sequence S and every
\* cutoff, trim_on_abundance returns trim_at <= len(S); len(S) when S is
\* shorter than K or has no k-mer counted below the cutoff; and otherwise
\* the k-mer that ends at trim_at is counted below the cutoff and no k-mer
\* starting before it is.  Every k-mer of the kept prefix S[:trim_at] is
\* counted at the cutoff or above.  Stated for a valid k-mer size.
C12_TrimAtFirstLowKmer ==
    (ksize > 0 /\ ht # <<>>) =>
        \A S \in QuerySequences :
            \* counts[p + 1] is the count of the k-mer at offset p of S.
            LET keys == KeysOf(S, ksize)
                counts == SubSeq([q \in 1..Len(keys) |-> get_count(ht, keys[q])],
                                 1, Len(keys))
            IN  \A cutoff \in Cutoffs :
                    LET trim_at == trim_on_abundance(ht, ksize, S, cutoff)
                        low == {p \in kmer_positions(S, ksize) : counts[p + 1] < cutoff}
                        kept == slice_to(S, trim_at)
                    IN  /\ trim_at <= Len(S)
                        /\ Len(S) < ksize => trim_at = Len(S)
                        /\ (Len(S) >= ksize /\ low = {}) => trim_at = Len(S)
                        /\ (Len(S) >= ksize /\ low # {}) =>
                              /\ (trim_at - ksize + 1) \in low
                              /\ \A q \in low : q >= trim_at - ksize + 1
                        /\ kept = SubSeq(S, 1, Len(kept))
                        /\ \A p \in kmer_positions(kept, ksize) : counts[p + 1] >= cutoff

C12_Witness ==
    /\ ksize > 0
    /\ \E i \in LogIdx :
          LET S == replace_N_A(log[i].read.sequence)
              trim_at == trim_on_abundance(ht, ksize, S, CUTOFF)
          IN  /\ log[i].pass = 2 /\ log[i].trim_applied
              /\ log[i].trim_at = trim_at
              /\ trim_at >= ksize /\ trim_at < Len(S)
              /\ LowOffsets(ht, ksize, S, CUTOFF) # {}
              /\ 0 \notin LowOffsets(ht, ksize, S, CUTOFF)
    /\ \E S \in QuerySequences :
          Len(S) >= ksize /\ LowOffsets(ht, ksize, S, CUTOFF) = {}

\* Every key a k-mer of length K can have.
AllKeys(K) == 0..(power(4, K) - 1)

\* No counter of table a is above the counter of table b at its place.
CountersAtMost(a, b) ==
    \A i \in 1..Len(a) : \A bin \in 1..Len(a[i]) : a[i][bin] <= b[i][bin]

\* C13: a table just made reports 0 for every key; from then on no step of
\* the run lowers a counter or the count reported for a key, and consuming
\* a sequence, once or twice, lowers no reported count.
C13_CountsNeverDecrease ==
    /\ [][ /\ (ht = <<>> /\ ht' # <<>>) =>
                \A key \in AllKeys(ksize) : get_count(ht', key) = 0
           /\ ht # <<>> =>
                /\ Len(ht') = Len(ht)
                /\ CountersAtMost(ht, ht')
                /\ \A key \in AllKeys(ksize) :
                      get_count(ht', key) >= get_count(ht, key) ]_vars
    /\ [](ht # <<>> =>
            \A S \in QuerySequences :
                LET once == consume(ht, ksize, S)
                    twice == consume(once, ksize, S)
                IN  \A key \in AllKeys(ksize) :
                        /\ get_count(once, key) >= get_count(ht, key)
                        /\ get_count(twice, key) >= get_count(once, key))

C13_Witness ==
    /\ Completed
    /\ ksize > 0
    /\ Len(input_filenames) = 2
    /\ \E key \in AllKeys(ksize) : get_count(ht, key) >= 3
    /\ \E i, j \in LogIdx :
          /\ log[i].pass = 1 /\ log[i].decision = "deferred" /\ log[i].file = 2
          /\ log[j].pass = 2 /\ log[j].decision = "trimmed"

Bases == {"A", "C", "G", "T"}

\* The keys of the k-mers of length K.
CanonicalKeys(K) == {encode(kmer) : kmer \in [1..K -> Bases]}

\* The keys consumed by the deferrals among the first i entries of the
\* history, one for each k-mer consumed.
RECURSIVE ConsumedKeySeq(_)
ConsumedKeySeq(i) ==
    IF i = 0 THEN <<>>
    ELSE IF log[i].decision = "deferred"
    THEN ConsumedKeySeq(i - 1) \o KeysOf(replace_N_A(log[i].read.sequence), ksize)
    ELSE ConsumedKeySeq(i - 1)

\* The times a key occurs in a sequence of keys.
TimesIn(keys, key) == Cardinality({i \in 1..Len(keys) : keys[i] = key})

\* The times the key was consumed in the run.
TrueCount(key) == TimesIn(ConsumedKeySeq(Len(log)), key)

ConsumedKeys ==
    LET consumed == ConsumedKeySeq(Len(log))
    IN  {consumed[i] : i \in 1..Len(consumed)}

\* The two keys share a counter in array i.
CollideIn(i, key1, key2) == bin_of(key1, i) = bin_of(key2, i)

\* The history holds every consume of the run: a run ended by a failed
\* write may have consumed the record it could not set aside.
HistoryComplete == ksize > 0 /\ ht # <<>> /\ exit_status # "IOError"

\* C14 as stated: the count reported for a key is never below the times
\* the key was consumed (up to the counter maximum), and it is that number
\* for every key when no two consumed keys share a counter in any array.
C14_ExactWhenConsumedKeysApart ==
    HistoryComplete =>
        LET consumed == ConsumedKeySeq(Len(log))
            consumed_keys == {consumed[i] : i \in 1..Len(consumed)}
            apart == \A key1, key2 \in consumed_keys :
                        key1 # key2 => \A i \in 1..Len(ht) : ~CollideIn(i, key1, key2)
        IN  \A key \in CanonicalKeys(ksize) :
                LET true_count == Min2(TimesIn(consumed, key), MaxCount)
                IN  /\ get_count(ht, key) >= true_count
                    /\ apart => get_count(ht, key) = true_count

\* C14 amended: the count reported for a key is never below the times the
\* key was consumed (up to the counter maximum), and it is that number for
\* every key that in some array shares its counter with no other consumed
\* key.
C14_ExactWhenKeyApart ==
    HistoryComplete =>
        LET consumed == ConsumedKeySeq(Len(log))
            consumed_keys == {consumed[i] : i \in 1..Len(consumed)}
        IN  \A key \in CanonicalKeys(ksize) :
                LET true_count == Min2(TimesIn(consumed, key), MaxCount)
                IN  /\ get_count(ht, key) >= true_count
                    /\ (\E i \in 1..Len(ht) :
                          \A other \in consumed_keys \ {key} : ~CollideIn(i, key, other))
                        => get_count(ht, key) = true_count

C14_Witness ==
    /\ HistoryComplete
    /\ Completed
    /\ \E i \in LogIdx : log[i].is_pair /\ log[i].decision = "deferred"
    /\ \E key \in ConsumedKeys :
          /\ \E i \in 1..Len(ht) :
                \A other \in ConsumedKeys \ {key} : ~CollideIn(i, key, other)
          /\ \E i \in 1..Len(ht) :
                \E other \in ConsumedKeys \ {key} : CollideIn(i, key, other)
          /\ get_count(ht, key) = TrueCount(key)
          /\ TrueCount(key) >= 2

\* C16: a record in the final output that was written after a trim decision
\* with trim_at >= K has the name of an input record, its sequence is the
\* first trim_at characters of that input record's sequence as it was read
\* (an N stays an N), and its quality, when the input has one, is the first
\* trim_at values of the input's quality, as long as its sequence.
C16_TrimmedRecordIsPrefix ==
    \A b \in Basenames : \A k \in 1..Len(fs.trim[b].records) :
        LET e == fs.trim[b].records[k]
        IN  /\ \E r \in InputRecords : r.name = e.name
            /\ \A i \in LogIdx :
                  (log[i].read.name = e.name /\ log[i].decision = "trimmed") =>
                      LET orig == InputRecord(e.name)
                          trim_at == log[i].trim_at
                      IN  /\ trim_at >= ksize
                          /\ trim_at <= Len(orig.sequence)
                          /\ e.sequence = SubSeq(orig.sequence, 1, trim_at)
                          /\ (e.format = "fastq") = orig.has_accuracy
                          /\ orig.has_accuracy =>
                                /\ e.accuracy = SubSeq(orig.accuracy, 1, trim_at)
                                /\ Len(e.accuracy) = Len(e.sequence)

C16_Witness ==
    /\ ksize > 0
    /\ \E i, j \in LogIdx :
          /\ log[i].pass = 1 /\ log[i].decision = "trimmed"
          /\ log[i].trim_at < Len(log[i].read.sequence)
          /\ log[i].read.has_accuracy
          /\ \E c \in 1..log[i].trim_at : log[i].read.sequence[c] = "N"
          /\ WrittenAt(log[i].read.name) # {}
          /\ log[j].pass = 2 /\ log[j].decision = "trimmed"
          /\ WrittenAt(log[j].read.name) # {}

\* The names of the entries of the history that satisfy Keep, in order.
RECURSIVE NamesInLog(_, _)
NamesInLog(Keep(_), i) ==
    IF i = 0 THEN <<>>
    ELSE IF Keep(log[i]) THEN Append(NamesInLog(Keep, i - 1), log[i].read.name)
    ELSE NamesInLog(Keep, i - 1)

\* The names of the records of input file f that a file holds, in order.
RECURSIVE NamesInFile(_, _, _)
NamesInFile(file, f, k) ==
    IF k = 0 THEN <<>>
    ELSE IF file.records[k].name[1] = f
    THEN Append(NamesInFile(file, f, k - 1), file.records[k].name)
    ELSE NamesInFile(file, f, k - 1)

\* The records of input file f in the order pass 1 deferred them, in the
\* order pass 2 took them up, and in the order each pass wrote them.
DeferredSeq(f) ==
    LET Keep(e) == e.pass = 1 /\ e.decision = "deferred" /\ e.read.name[1] = f
    IN  NamesInLog(Keep, Len(log))
Pass2Seq(f) ==
    LET Keep(e) == e.pass = 2 /\ e.read.name[1] = f
    IN  NamesInLog(Keep, Len(log))
Pass1WrittenSeq(f) ==
    LET Keep(e) == e.pass = 1 /\ e.decision \in {"trimmed", "untrimmed"}
                   /\ e.read.name[1] = f
    IN  NamesInLog(Keep, Len(log))
Pass2WrittenSeq(f) ==
    LET Keep(e) == e.pass = 2 /\ e.decision \in {"trimmed", "unchanged"}
                   /\ e.read.name[1] = f
    IN  NamesInLog(Keep, Len(log))

IsPrefix(s, t) == Len(s) <= Len(t) /\ s = SubSeq(t, 1, Len(s))

\* Another input file of the run has the basename of f, and so the same
\* pass-2 file and output file: opening it empties them.
SharesBasename(f) == \E g \in FileSet \ {f} : basename(g) = basename(f)

\* C17: for each input file, the pass-2 file holds the records pass 1
\* deferred from it, in the order pass 1 deferred them; pass 2 takes them
\* up in that order; and the file's output holds first what pass 1 wrote of
\* it and then what pass 2 wrote of it, each in the order of the decisions.
\* Of a file that shares its basename, the pass-2 file and the output hold
\* that or nothing.
C17_DeferredOrderKept ==
    \A f \in FileSet :
        LET store == fs.pass2[basename(f)]
            out == fs.trim[basename(f)]
            emptied == IF SharesBasename(f) THEN {<<>>} ELSE {}
        IN  /\ store.exists =>
                  NamesInFile(store, f, Len(store.records))
                      \in {DeferredSeq(f)} \cup emptied
            /\ IsPrefix(Pass2Seq(f), DeferredSeq(f))
            /\ NamesInFile(out, f, Len(out.records))
                  \in {Pass1WrittenSeq(f) \o Pass2WrittenSeq(f)} \cup emptied

C17_Witness ==
    /\ Completed
    /\ ksize > 0
    /\ \E f \in FileSet :
          /\ ~SharesBasename(f)
          /\ Len(DeferredSeq(f)) >= 2
          /\ Len(Pass2WrittenSeq(f)) >= 2
          /\ Len(Pass1WrittenSeq(f)) >= 1
          /\ Len(fs.trim[basename(f)].records) >= 3

\* The places of the final output files.
OutputPlaces ==
    {<<b, k>> \in Basenames \X (1..(2 * MaxYields)) : k <= Len(fs.trim[b].records)}

WrittenRecord(place) == fs.trim[place[1]].records[place[2]]

\* Bases of the records at these places.
RECURSIVE BasesAt(_)
BasesAt(places) ==
    IF places = {} THEN 0
    ELSE LET place == CHOOSE pl \in places : TRUE
         IN  Len(WrittenRecord(place).sequence) + BasesAt(places \ {place})

\* The places whose record is shorter than the input record of its name.
ShortenedPlaces ==
    {place \in OutputPlaces :
        Len(WrittenRecord(place).sequence)
            < Len(InputRecord(WrittenRecord(place).name).sequence)}

\* C18: when the run completes, wrote_reads is the number of records in
\* the final output files, wrote_bp is the number of bases of those
\* records, and trimmed_reads is the number of those records that are
\* shorter than the input record they come from.  Stated for runs with a
\* valid k-mer size.
C18_SummaryMatchesOutput ==
    (Completed /\ ksize > 0) =>
        /\ stats.wrote_reads = Cardinality(OutputPlaces)
        /\ stats.wrote_bp = BasesAt(OutputPlaces)
        /\ stats.trimmed_reads = Cardinality(ShortenedPlaces)

\* Pass 1 has left its last file.
AfterPass1 == file_i > Len(input_filenames)

NeverInHistory(name) == \A i \in LogIdx : log[i].read.name # name

\* C19: the table, once made, changes only in a pass-1 step on a record
\* (or pair) whose median is below NORMALIZE_LIMIT and that was not met
\* before, and then by the consume of that record (or of both mates);
\* every other step of pass 1 and every step of pass 2 leaves it as it is.
\* No record is deferred twice, and from the end of pass 1 of the last
\* file on the table is the one pass 1 left.
C19_TableChangesOnlyOnDeferral ==
    /\ [][ (ht # <<>> /\ ht' # ht) =>
             /\ pc = "pass1_loop"
             /\ pos < Len(disk[filename])
             /\ LET y == disk[filename][pos + 1]
                    seq1 == replace_N_A(y.read1.sequence)
                    seq2 == replace_N_A(y.read2.sequence)
                    med1 == get_median_count(ht, ksize, seq1)
                    med2 == get_median_count(ht, ksize, seq2)
                IN  IF y.is_pair
                    THEN /\ med1 < NORMALIZE_LIMIT \/ med2 < NORMALIZE_LIMIT
                         /\ ht' = consume(consume(ht, ksize, seq1), ksize, seq2)
                         /\ NeverInHistory(y.read1.name)
                         /\ NeverInHistory(y.read2.name)
                    ELSE /\ med1 < NORMALIZE_LIMIT
                         /\ ht' = consume(ht, ksize, seq1)
                         /\ NeverInHistory(y.read1.name) ]_vars
    /\ [](/\ \A r \in InputRecords :
               Cardinality({i \in LogIdx : /\ log[i].read.name = r.name
                                           /\ log[i].decision = "deferred"}) <= 1
          /\ \A i \in LogIdx : log[i].decision = "deferred" => log[i].pass = 1
          /\ AfterPass1 => ht = RunPass1(input_filenames).ht)

C19_Witness ==
    /\ Completed
    /\ ksize > 0
    /\ ht # new_counting_hash(ksize, HT_SIZE, N_HT)
    /\ \E i, j, k \in LogIdx :
          /\ log[i].pass = 1 /\ log[i].is_pair /\ log[i].decision = "deferred"
          /\ log[j].pass = 1 /\ log[j].decision = "trimmed"
          /\ log[k].pass = 2 /\ log[k].decision = "trimmed"
          /\ log[k].trim_at < Len(log[k].read.sequence)

\* ------------------------------------------- a table near its maximum
\*
\* The counting table on its own: one sequence is consumed again and again
\* until its counters are close to MaxCount, and then any sequences are
\* consumed.  Here log holds the history of consumes (the sequence, how
\* many times in a row, and the table before the first of them), pos counts
\* the consumes that follow the repeated one, and the variables of main()
\* other than ht stay as they are.

ConsumeEntry(seq, times, before) ==
    [sequence |-> seq, times |-> times, before |-> before]

\* The reader sequences that hold a k-mer.
LongSequences(K) == {S \in QuerySequences : ~TooShort(K, S)}

InitSaturation ==
    /\ input_filenames = <<FileAX>>
    /\ ksize \in {K \in Ksizes : K > 0}
    /\ variable_coverage = FALSE
    /\ disk = [f \in {FileAX} |-> <<>>]
    /\ pc = "pass1_loop"
    /\ exit_status = "running"
    /\ ht = new_counting_hash(ksize, HT_SIZE, N_HT)
    /\ \E S \in LongSequences(ksize) : log = <<ConsumeEntry(S, 0, ht)>>
    /\ fs = [tempdir |-> TRUE,
             pass2 |-> [b \in Basenames |-> NoFile],
             trim |-> [b \in Basenames |-> NoFile]]
    /\ pass2list = <<>>
    /\ file_i = 1
    /\ pass2_i = 0
    /\ pos = 0
    /\ n = Unbound
    /\ stats = [save_pass2 |-> 0, save_pass2_total |-> 0, read_bp |-> 0,
                read_reads |-> 0, wrote_bp |-> 0, wrote_reads |-> 0,
                trimmed_reads |-> 0, skipped_n |-> 0, skipped_bp |-> 0]

\* ht.consume(seq) of the first sequence once more.
ConsumeAgain ==
    /\ Len(log) = 1
    /\ log[1].times < MaxCount
    /\ ht' = consume(ht, ksize, log[1].sequence)
    /\ log' = [log EXCEPT ![1].times = @ + 1]
    /\ UNCHANGED <<config, pc, exit_status, fs, pass2list, file_i, pass2_i, pos, n,
                   stats>>

\* ht.consume(seq) of any sequence, into a table near its maximum.
ConsumeSequence ==
    /\ log[1].times >= MaxCount - 2
    /\ pos < MaxConsumes
    /\ \E S \in QuerySequences :
          /\ ht' = consume(ht, ksize, S)
          /\ log' = Append(log, ConsumeEntry(S, 1, ht))
    /\ pos' = pos + 1
    /\ UNCHANGED <<config, pc, exit_status, fs, pass2list, file_i, pass2_i, n, stats>>

NextSaturation ==
    \/ ConsumeAgain
    \/ ConsumeSequence

SpecSaturation == InitSaturation /\ [][NextSaturation]_vars

\* The times the key was consumed, by the history of consumes.
RECURSIVE TimesConsumed(_, _)
TimesConsumed(key, i) ==
    IF i = 0 THEN 0
    ELSE TimesConsumed(key, i - 1) +
         log[i].times *
            Cardinality({p \in kmer_positions(log[i].sequence, ksize) :
                            encode(kmer_at(log[i].sequence, p, ksize)) = key})

\* The table after consume number i of the history.
TableAfter(i) == IF i < Len(log) THEN log[i + 1].before ELSE ht

\* C15: every counter is within 0..MaxCount; a consume leaves a counter
\* that holds MaxCount at MaxCount and makes no counter smaller; and a key
\* consumed more than MaxCount times is reported with count MaxCount.
C15_CountersSaturate ==
    /\ \A i \in 1..Len(ht) : \A bin \in 1..Len(ht[i]) : ht[i][bin] \in 0..MaxCount
    /\ \A c \in LogIdx :
          LET before == log[c].before
              after == TableAfter(c)
          IN  \A i \in 1..Len(before) : \A bin \in 1..Len(before[i]) :
                  /\ before[i][bin] = MaxCount => after[i][bin] = MaxCount
                  /\ after[i][bin] >= before[i][bin]
    /\ \A key \in CanonicalKeys(ksize) :
          /\ TimesConsumed(key, Len(log)) > MaxCount => get_count(ht, key) = MaxCount
          /\ get_count(ht, key) >= Min2(TimesConsumed(key, Len(log)), MaxCount)

C15_Witness ==
    /\ \E c \in LogIdx : \E p \in kmer_positions(log[c].sequence, ksize) :
          LET key == encode(kmer_at(log[c].sequence, p, ksize))
          IN  /\ log[c].times = 1
              /\ get_count(log[c].before, key) = MaxCount
              /\ get_count(TableAfter(c), key) = MaxCount
              /\ TimesConsumed(key, Len(log)) > MaxCount
    /\ \E c \in LogIdx : \E p \in kmer_positions(log[c].sequence, ksize) :
          LET key == encode(kmer_at(log[c].sequence, p, ksize))
          IN  /\ log[c].times = 1
              /\ get_count(log[c].before, key) = MaxCount - 1
              /\ get_count(TableAfter(c), key) = MaxCount

====
